---- MODULE Spec2Model ----
(***************************************************************************)
(* A model of colinmarc/cdb: the buffered Writer (src/writer.go, lines     *)
(* 1-192), the reader CDB (src/unnamed/part_003), the cdb hash             *)
(* (src/hash.go) and the tuple codec (src/util.go).                        *)
(*                                                                         *)
(* Numbers.  TLC's integers are 32-bit signed, the program's offsets are   *)
(* uint32 and int64.  Every program integer that can pass 2^31 is kept as  *)
(* a pair <<hi, lo>> = hi * 2^16 + lo with 0 <= lo < 2^16, so that uint32   *)
(* truncation (hi % 2^16) and the comparison with maxUint32 are exact.     *)
(*                                                                         *)
(* Bytes.  A byte string ([]byte, the file) is a sequence of chunks: a      *)
(* literal sequence of bytes, or a fill of n >= 2^16 copies of one byte,   *)
(* n a wide number, in canonical form (equal byte strings are equal        *)
(* values).  This is what lets a value of nearly 4 GiB be an input.        *)
(***************************************************************************)
EXTENDS Integers, Sequences, FiniteSets, TLC

\* ------------------------------------------------------------ wide numbers
W16 == 256 * 256

\* the two halves of a wide number
Hi(a) == a[1]

Lo(a) == a[2]

Wide(n) == << n \div W16, n % W16 >>

WZero == << 0, 0 >>

WAdd(a, b) ==
  LET s == Lo(a) + Lo(b)
  IN  << Hi(a) + Hi(b) + (s \div W16), s % W16 >>

\* a - b, for a >= b
WSub(a, b) ==
  LET d == Lo(a) - Lo(b)
  IN  IF d >= 0 THEN << Hi(a) - Hi(b), d >>
                ELSE << Hi(a) - Hi(b) - 1, d + W16 >>

WLess(a, b) == Hi(a) < Hi(b) \/ (Hi(a) = Hi(b) /\ Lo(a) < Lo(b))

WLeq(a, b) == ~WLess(b, a)

\* the conversion uint32(x) of an int64 or of a uint32 sum: x mod 2^32
Uint32(a) == << Hi(a) % W16, Lo(a) >>

\* a uint32 below 2^31 as a plain integer
WInt(a) == Hi(a) * W16 + Lo(a)

\* const maxUint32 = int64(^uint32(0))
maxUint32 == << W16 - 1, W16 - 1 >>

\* const indexSize = 256 * 8
indexSize == 256 * 8

\* ------------------------------------------------------------ byte strings
\* a run of one byte at least this long (2^16) is kept as a fill, anything else
\* literally; a byte string is a sequence of literal and fill chunks, no two
\* adjacent chunks mergeable
FillMin == << 1, 0 >>

Lit(q) == [fill |-> FALSE, lit |-> q, b |-> 0, n |-> WZero]

Fill(b, n) == [fill |-> TRUE, lit |-> << >>, b |-> b, n |-> n]

BEmpty == << >>

\* n copies of byte b
BRun(b, n) ==
  IF n = WZero THEN << >>
  ELSE IF WLess(n, FillMin) THEN << Lit(SubSeq([i \in 1..WInt(n) |-> b], 1, WInt(n))) >>
  ELSE << Fill(b, n) >>

ChunkLen(c) == IF c.fill THEN c.n ELSE Wide(Len(c.lit))

\* how many bytes at the front (at the back) of the literal q equal b
LeadingRun(q, b) ==
  LET other == { i \in 1..Len(q) : q[i] # b }
  IN  IF other = {} THEN Len(q)
      ELSE (CHOOSE i \in other : \A j \in other : i <= j) - 1

TrailingRun(q, b) ==
  LET other == { i \in 1..Len(q) : q[i] # b }
  IN  IF other = {} THEN Len(q)
      ELSE Len(q) - (CHOOSE i \in other : \A j \in other : i >= j)

\* the chunks of x followed by y, in canonical form
Join(x, y) ==
  IF ~x.fill /\ ~y.fill THEN << Lit(x.lit \o y.lit) >>
  ELSE IF x.fill /\ y.fill
       THEN IF x.b = y.b THEN << Fill(x.b, WAdd(x.n, y.n)) >> ELSE << x, y >>
  ELSE IF x.fill
       THEN LET k == LeadingRun(y.lit, x.b)
            IN  << Fill(x.b, WAdd(x.n, Wide(k))) >>
                \o (IF k = Len(y.lit) THEN << >>
                    ELSE << Lit(SubSeq(y.lit, k + 1, Len(y.lit))) >>)
  ELSE LET k == TrailingRun(x.lit, y.b)
       IN  (IF k = Len(x.lit) THEN << >>
            ELSE << Lit(SubSeq(x.lit, 1, Len(x.lit) - k)) >>)
           \o << Fill(y.b, WAdd(y.n, Wide(k))) >>

\* s followed by t
BCat(s, t) ==
  IF s = << >> THEN t
  ELSE IF t = << >> THEN s
  ELSE SubSeq(s, 1, Len(s) - 1) \o Join(s[Len(s)], t[1]) \o Tail(t)

RECURSIVE BLenFrom(_, _)
BLenFrom(s, i) ==
  IF i > Len(s) THEN WZero ELSE WAdd(ChunkLen(s[i]), BLenFrom(s, i + 1))

\* len(s)
BLen(s) == BLenFrom(s, 1)

\* the first n bytes of the chunk c, n > 0 below its length
ChunkTake(c, n) ==
  IF c.fill THEN BRun(c.b, n) ELSE << Lit(SubSeq(c.lit, 1, WInt(n))) >>

\* the chunk c without its first n bytes, n > 0 below its length
ChunkDrop(c, n) ==
  IF c.fill THEN BRun(c.b, WSub(c.n, n))
  ELSE << Lit(SubSeq(c.lit, WInt(n) + 1, Len(c.lit))) >>

\* s[:n], for n <= len(s)
RECURSIVE BTake(_, _)
BTake(s, n) ==
  IF n = WZero \/ s = << >> THEN << >>
  ELSE IF WLeq(ChunkLen(s[1]), n)
       THEN BCat(<< s[1] >>, BTake(Tail(s), WSub(n, ChunkLen(s[1]))))
       ELSE ChunkTake(s[1], n)

\* s[n:], for n <= len(s)
RECURSIVE BDrop(_, _)
BDrop(s, n) ==
  IF n = WZero \/ s = << >> THEN s
  ELSE IF WLeq(ChunkLen(s[1]), n)
       THEN BDrop(Tail(s), WSub(n, ChunkLen(s[1])))
       ELSE BCat(ChunkDrop(s[1], n), Tail(s))

\* s[from : from + n]
BSlice(s, from, n) == BTake(BDrop(s, from), n)

\* the byte string of an explicit sequence of bytes
BytesOf(q) == IF q = << >> THEN << >> ELSE << Lit(q) >>

\* the explicit sequence of bytes of a byte string shorter than FillMin
SeqOf(s) == IF s = << >> THEN << >> ELSE s[1].lit

\* ------------------------------------------------------------ hash.go
RECURSIVE Xor(_, _)
Xor(a, b) ==
  IF a = 0 THEN b
  ELSE IF b = 0 THEN a
  ELSE ((a + b) % 2) + 2 * Xor(a \div 2, b \div 2)

\* const start = 5381
start == 5381

\* v = ((v << 5) + v) ^ uint32(b), in uint32
HashStep(v, b) ==
  LET sl == Lo(v) * 32
      sh == Hi(v) * 32 + (sl \div W16)
      shifted == << sh % W16, sl % W16 >>
      sum == Uint32(WAdd(shifted, v))
  IN  << Hi(sum), Xor(Lo(sum), b) >>

RECURSIVE CDBHashSum32Update(_, _)
CDBHashSum32Update(data, v) ==
  IF data = << >> THEN v
  ELSE CDBHashSum32Update(Tail(data), HashStep(v, data[1]))

CDBHashSum32(data) == CDBHashSum32Update(data, Wide(start))

\* ------------------------------------------------------------ util.go
\* binary.LittleEndian.PutUint32
PutUint32(w) == << Lo(w) % 256, Lo(w) \div 256, Hi(w) % 256, Hi(w) \div 256 >>

\* binary.LittleEndian.Uint32
LEUint32(q) == << q[3] + 256 * q[4], q[1] + 256 * q[2] >>

\* the 8 bytes writeTuple hands to its writer
TupleBytes(first, second) == BytesOf(PutUint32(first) \o PutUint32(second))

\* ------------------------------------------------------------ bounds, inputs
\* Put calls made on one Writer
MaxPuts == 2

\* Close and Freeze calls made on one Writer
MaxCalls == 2

\* keys: the empty key (bucket 5), a one-byte key of bucket 0, two keys of
\* bucket 36 whose 32-bit hashes are equal, two keys whose 32-bit hash is 0
KEmpty == << >>
KB0 == << 165 >>
KCol1 == << 0, 97 >>
KCol2 == << 1, 0 >>
KZero1 == << 138, 160, 32, 70, 233 >>
KZero2 == << 138, 160, 33, 167, 233 >>

Keys == { KEmpty, KB0, KCol1, KCol2, KZero1, KZero2 }

\* values: the empty value and a short one
VShort == BytesOf(<< 7, 0 >>)

Values == { BEmpty, VShort }

\* keys of the Puts made after a Close or Freeze
LateKeys == { KEmpty, KB0 }

\* the Puts made before the first Close or Freeze: both values for two keys, the
\* short value for the others
PutInputs == (LateKeys \X Values) \cup ((Keys \ LateKeys) \X { VShort })

\* slots of a table handed to Get
MaxSlots == 2

\* Put calls on a Writer that is given values of nearly 4 GiB
MaxCapPuts == 4

\* a value which, Put once with the empty key, lets finalize end exactly at
\* maxUint32: indexSize + 8 + GiantLen + 8 = 2^32 - 1
GiantLen == WSub(maxUint32, Wide(indexSize + 16))

Giant == BRun(0, GiantLen)

CapValues == { BEmpty, Giant }

\* ------------------------------------------------------------ state
VARIABLES
  entries,         \* Writer.entries: [256][]entry
  bufferedOffset,  \* Writer.bufferedOffset (int64)
  bufferedWriter,  \* Writer.bufferedWriter: nil, or its pending bytes and sticky error
  finalizeOnce,    \* Writer.finalizeOnce: done flag and the holder of its mutex
  writer,          \* Writer.writer, the sink: its bytes, position, closed flag, capabilities
  calls,           \* the Close and Freeze invocations: kind, position, locals err and index
  readers,         \* the CDB values Freeze has returned
  probe,           \* a Get in progress on readers[1]: its locals and the tuples read
  callers,         \* the Get and Each calls several callers run on readers[1]: their locals
  digest,          \* a cdbHash: its uint32, and the bytes written to it so far
  puts,            \* history: every Put made, with its record's true start and its result
  hist             \* history: which call ran the finalize body, how often its writes ran

vars == << entries, bufferedOffset, bufferedWriter, finalizeOnce, writer, calls,
           readers, probe, callers, digest, puts, hist >>

\* the variables of the calls on a reader and of a hash
readVars == << probe, callers, digest >>

Buckets == 0..255

\* type index [256]table, zero value
ZeroIndex == [i \in Buckets |-> [offset |-> WZero, length |-> WZero]]

\* ------------------------------------------------------------ the sink
\* the sink with p written at its position, which moves to end
SinkPut(s, p, end) ==
  [s EXCEPT !.file = BCat(BCat(BTake(s.file, s.pos), p),
                          IF WLess(end, BLen(s.file)) THEN BDrop(s.file, end) ELSE << >>),
            !.pos = end]

\* Write on the io.WriteSeeker at its current position; fails once closed
SinkWrite(s, p) ==
  IF s.closed THEN [sink |-> s, ok |-> FALSE]
  ELSE [sink |-> SinkPut(s, p, WAdd(s.pos, BLen(p))), ok |-> TRUE]

\* Seek(0, os.SEEK_SET)
SinkSeek0(s) ==
  IF s.closed THEN [sink |-> s, ok |-> FALSE]
  ELSE [sink |-> [s EXCEPT !.pos = WZero], ok |-> TRUE]

\* ReadAt(buf, off) with len(buf) = size: all the bytes or an error
ReadAt(s, off, size) ==
  IF s.closed \/ WLess(BLen(s.file), WAdd(off, size))
  THEN [ok |-> FALSE, bytes |-> << >>]
  ELSE [ok |-> TRUE, bytes |-> BSlice(s.file, off, size)]

\* ------------------------------------------------------------ bufio.Writer
\* bufio.NewWriter's buffer size
defaultBufSize == 4096

\* the result of a write that went to the sink, the buffer left holding buf
BufSunk(bw, buf, w) ==
  [bw |-> [bw EXCEPT !.buf = buf, !.err = ~w.ok], sink |-> w.sink, ok |-> w.ok]

\* the buffer was filled and flushed (w1); the rest is buffered, or written directly
\* when it is larger than the buffer
BufSpilled(bw, s, full, rest, w1) ==
  IF ~w1.ok
  THEN [bw |-> [bw EXCEPT !.buf = full, !.err = TRUE], sink |-> s, ok |-> FALSE]
  ELSE IF WLeq(BLen(rest), Wide(defaultBufSize))
       THEN [bw |-> [bw EXCEPT !.buf = rest], sink |-> w1.sink, ok |-> TRUE]
       ELSE BufSunk(bw, << >>, SinkWrite(w1.sink, rest))

BufSpill(bw, s, full, rest) == BufSpilled(bw, s, full, rest, SinkWrite(s, full))

BufWriteAvail(bw, s, p, avail) ==
  IF bw.err THEN [bw |-> bw, sink |-> s, ok |-> FALSE]
  ELSE IF WLeq(BLen(p), avail)
       THEN [bw |-> [bw EXCEPT !.buf = BCat(bw.buf, p)], sink |-> s, ok |-> TRUE]
  ELSE IF bw.buf = << >> THEN BufSunk(bw, << >>, SinkWrite(s, p))
  ELSE BufSpill(bw, s, BCat(bw.buf, BTake(p, avail)), BDrop(p, avail))

\* bufio.Writer.Write(p): fill the buffer, flush it when full, write a large p directly
BufWrite(bw, s, p) ==
  BufWriteAvail(bw, s, p, WSub(Wide(defaultBufSize), BLen(bw.buf)))

BufFlushed(bw, s, w) ==
  IF w.ok THEN [bw |-> [bw EXCEPT !.buf = << >>], sink |-> w.sink, ok |-> TRUE]
  ELSE [bw |-> [bw EXCEPT !.err = TRUE], sink |-> s, ok |-> FALSE]

\* bufio.Writer.Flush
BufFlush(bw, s) ==
  IF bw.err THEN [bw |-> bw, sink |-> s, ok |-> FALSE]
  ELSE IF bw.buf = << >> THEN [bw |-> bw, sink |-> s, ok |-> TRUE]
  ELSE BufFlushed(bw, s, SinkWrite(s, bw.buf))

\* writeTuple(w, first, second) on the buffered writer
writeTuple(bw, s, first, second) == BufWrite(bw, s, TupleBytes(first, second))

\* ------------------------------------------------------------ NewWriter
\* Seek(0), Write(make([]byte, indexSize)), bufferedOffset: indexSize
NewWriter(readerAt) ==
  /\ entries = [i \in Buckets |-> << >>]
  /\ bufferedOffset = Wide(indexSize)
  /\ bufferedWriter = [nil |-> FALSE, buf |-> << >>, err |-> FALSE]
  /\ finalizeOnce = [done |-> FALSE, m |-> 0]
  /\ writer = [file |-> BRun(0, Wide(indexSize)), pos |-> Wide(indexSize),
               closed |-> FALSE, readerAt |-> readerAt]

\* ------------------------------------------------------------ Put
\* an entry that records where the key starts, not where the record starts
PutEntryEnd(key, off) ==
  [hash |-> CDBHashSum32(key), offset |-> Uint32(WAdd(off, Wide(8)))]

\* an offset advanced by the key and the value only
PutAdvanceNoTuple(off, key, value) == WAdd(off, WAdd(Wide(Len(key)), BLen(value)))

\* the entry Put records before it writes: hash and uint32(bufferedOffset)
PutEntry(key, off) == [hash |-> CDBHashSum32(key), offset |-> Uint32(off)]

\* the bucket of a hash: hash & 0xff
TableOf(hash) == Lo(hash) % 256

\* Put's writes of the key and the value, after the tuple (w1), stopping at the
\* first that fails
PutValue(value, w2) == IF ~w2.ok THEN w2 ELSE BufWrite(w2.bw, w2.sink, value)

PutKey(key, value, w1) ==
  IF ~w1.ok THEN w1 ELSE PutValue(value, BufWrite(w1.bw, w1.sink, BytesOf(key)))

\* the three buffered writes of Put
PutWrites(bw, s, key, value) ==
  PutKey(key, value, writeTuple(bw, s, Uint32(Wide(Len(key))), Uint32(BLen(value))))

\* cdb.bufferedOffset += int64(8 + len(key) + len(value))
PutAdvance(off, key, value) == WAdd(off, WAdd(Wide(8 + Len(key)), BLen(value)))

\* bufferedOffset > maxUint32
TooMuch(off) == WLess(maxUint32, off)

\* what Put returns; a nil bufferedWriter panics in writeTuple
PutResult(bw, w, off) ==
  IF bw.nil THEN "panic"
  ELSE IF ~w.ok THEN "io"
  ELSE IF TooMuch(off) THEN "ErrTooMuchData"
  ELSE "nil"

\* Put with its entry e, its writes w and the advanced offset off
PutDo(key, value, e, w, off) ==
  /\ entries' = [entries EXCEPT ![TableOf(e.hash)] = Append(@, e)]
  /\ IF bufferedWriter.nil
     THEN UNCHANGED << bufferedWriter, writer, bufferedOffset >>
     ELSE /\ bufferedWriter' = w.bw
          /\ writer' = w.sink
          /\ bufferedOffset' = IF w.ok THEN off ELSE bufferedOffset
  /\ puts' = Append(puts, [key |-> key, value |-> value, start |-> bufferedOffset,
                           res |-> PutResult(bufferedWriter, w, off)])
  /\ UNCHANGED << readVars, finalizeOnce, calls, readers, hist >>

Put(key, value) ==
  /\ \A c \in DOMAIN calls : calls[c].pc \in {"idle", "done"}
  /\ PutDo(key, value, PutEntry(key, bufferedOffset),
           PutWrites(bufferedWriter, writer, key, value),
           PutAdvance(bufferedOffset, key, value))

\* ------------------------------------------------------------ finalize
\* the non-empty buckets in ascending order
RECURSIVE SortedSeq(_)
SortedSeq(S) ==
  IF S = {} THEN << >>
  ELSE LET m == CHOOSE i \in S : \A j \in S : i <= j
       IN  << m >> \o SortedSeq(S \ {m})

NonEmpty(ents) == SortedSeq({ i \in Buckets : ents[i] # << >> })

\* the entries of all buckets in the order the loops of finalize reach them
RECURSIVE FlatFrom(_, _, _)
FlatFrom(ents, bs, k) ==
  IF k > Len(bs) THEN << >> ELSE ents[bs[k]] \o FlatFrom(ents, bs, k + 1)

Flat(ents, bs) == FlatFrom(ents, bs, 1)

\* how many entries the loops have passed when they reach bucket i
RECURSIVE BeforeFrom(_, _, _, _)
BeforeFrom(ents, bs, k, i) ==
  IF k > Len(bs) \/ bs[k] >= i THEN 0
  ELSE Len(ents[bs[k]]) + BeforeFrom(ents, bs, k + 1, i)

Before(ents, bs, i) == BeforeFrom(ents, bs, 1, i)

\* for _, entry := range tableEntries: writeTuple, bufferedOffset += 8, the ceiling;
\* st = [bw, sink, off, err, n], n the writeTuple calls made
RECURSIVE WriteEntries(_, _, _)
RECURSIVE WriteEntry(_, _, _, _, _)
WriteEntry(es, j, st, w, off) ==
  IF ~w.ok
  THEN [st EXCEPT !.bw = w.bw, !.sink = w.sink, !.err = "io", !.n = j]
  ELSE WriteEntries(es, j + 1,
         [bw |-> w.bw, sink |-> w.sink, off |-> off, n |-> j,
          err |-> IF TooMuch(off) THEN "ErrTooMuchData" ELSE "nil"])

WriteEntries(es, j, st) ==
  IF j > Len(es) \/ st.err # "nil" THEN st
  ELSE WriteEntry(es, j, st, writeTuple(st.bw, st.sink, es[j].hash, es[j].offset),
                  WAdd(st.off, Wide(8)))

\* an index in which only the buckets that have entries get their offset
TablesIndexSkipEmpty(ents, bs, off0, st) ==
  [i \in Buckets |->
     IF ents[i] # << >> /\ (st.err = "nil" \/ Before(ents, bs, i) < st.n)
     THEN [offset |-> Uint32(WAdd(off0, Wide(8 * Before(ents, bs, i)))),
           length |-> Uint32(Wide(Len(ents[i])))]
     ELSE [offset |-> WZero, length |-> WZero]]

\* an index in which a bucket's offset is taken after its entries are written
TablesIndexAfter(ents, bs, off0, st) ==
  [i \in Buckets |->
     IF st.err = "nil" \/ Before(ents, bs, i) < st.n
     THEN [offset |-> Uint32(WAdd(off0, Wide(8 * (Before(ents, bs, i) + Len(ents[i]))))),
           length |-> Uint32(Wide(Len(ents[i])))]
     ELSE [offset |-> WZero, length |-> WZero]]

\* the index finalize has filled when its loops end in st: a bucket is reached
\* when no error came before it, and then holds the offset at that moment
TablesIndex(ents, bs, off0, st) ==
  [i \in Buckets |->
     IF st.err = "nil" \/ Before(ents, bs, i) < st.n
     THEN [offset |-> Uint32(WAdd(off0, Wide(8 * Before(ents, bs, i)))),
           length |-> Uint32(Wide(Len(ents[i])))]
     ELSE [offset |-> WZero, length |-> WZero]]

TablesOf(ents, bs, off0, st) ==
  [bw |-> st.bw, sink |-> st.sink, off |-> st.off, err |-> st.err, n |-> st.n,
   index |-> TablesIndex(ents, bs, off0, st)]

TablesIn(ents, bs, bw, s, off0) ==
  TablesOf(ents, bs, off0,
           WriteEntries(Flat(ents, bs), 1,
                        [bw |-> bw, sink |-> s, off |-> off0, err |-> "nil", n |-> 0]))

\* for i := 0; i < 256; i++: index[i] = table{uint32(bufferedOffset), len}, then the
\* entries
Tables(ents, bw, s, off0) == TablesIn(ents, NonEmpty(ents), bw, s, off0)

\* the 2048 bytes of the header: for i, table := range index, offset then length
IndexSeq(index) ==
  SubSeq([k \in 1..indexSize |->
            LET t == index[(k - 1) \div 8]
                f == (k - 1) % 8
            IN  IF f < 4 THEN PutUint32(t.offset)[f + 1] ELSE PutUint32(t.length)[f - 3]],
         1, indexSize)

IndexBytes(index) == BytesOf(IndexSeq(index))

\* the bufferedWriter after finalize: nil
NilWriter == [nil |-> TRUE, buf |-> << >>, err |-> FALSE]

\* Write(buf) of the header, after the Seek k
IndexWritten(w) ==
  [bw |-> NilWriter, sink |-> w.sink, err |-> IF w.ok THEN "nil" ELSE "io", wrote |-> w.ok]

IndexSought(k, index) ==
  IF ~k.ok THEN [bw |-> NilWriter, sink |-> k.sink, err |-> "io", wrote |-> FALSE]
  ELSE IndexWritten(SinkWrite(k.sink, IndexBytes(index)))

IndexFlushed(f, index) ==
  IF ~f.ok THEN [bw |-> NilWriter, sink |-> f.sink, err |-> "io", wrote |-> FALSE]
  ELSE IndexSought(SinkSeek0(f.sink), index)

\* Flush, bufferedWriter = nil, Seek(0), Write(buf): [bw, sink, err, wrote]
WriteIndex(bw, s, index) == IndexFlushed(BufFlush(bw, s), index)

\* ------------------------------------------------------------ Close, Freeze
\* a Once that has lost its done flag: every caller runs f
OnceAlways(once) == TRUE

\* sync.Once.Do: whether this caller must run f
OnceMustRun(once) == ~once.done

InCall(c) == calls[c].pc \notin {"idle", "done"}

\* a caller enters Close or Freeze: var err error; var index index
CallStart(c, kind) ==
  /\ calls[c].pc = "idle"
  /\ c > 1 => calls[c - 1].pc # "idle"
  /\ calls' = [calls EXCEPT ![c] = [@ EXCEPT !.kind = kind, !.pc = "do"]]
  /\ UNCHANGED << readVars, entries, bufferedOffset, bufferedWriter, finalizeOnce, writer,
                  readers, puts, hist >>

\* finalizeOnce.Do, f already run: return without calling it
OnceSkip(c) ==
  /\ calls[c].pc = "do"
  /\ finalizeOnce.m = 0
  /\ ~OnceMustRun(finalizeOnce)
  /\ calls' = [calls EXCEPT ![c].pc = "post"]
  /\ UNCHANGED << readVars, entries, bufferedOffset, bufferedWriter, finalizeOnce, writer,
                  readers, puts, hist >>

\* finalizeOnce.Do, f not yet run: take the mutex and call finalize
OnceEnter(c) ==
  /\ calls[c].pc = "do"
  /\ finalizeOnce.m = 0
  /\ OnceMustRun(finalizeOnce)
  /\ finalizeOnce' = [finalizeOnce EXCEPT !.m = c]
  /\ calls' = [calls EXCEPT ![c].pc = "tables"]
  /\ hist' = [hist EXCEPT !.finalizeRuns = @ + 1, !.runner = c, !.stored = Len(puts)]
  /\ UNCHANGED << readVars, entries, bufferedOffset, bufferedWriter, writer, readers, puts >>

FinalizeTablesDo(c, st) ==
  /\ bufferedWriter' = st.bw
  /\ writer' = st.sink
  /\ bufferedOffset' = st.off
  /\ hist' = [hist EXCEPT !.tableRuns = @ + 1, !.tablesAt = bufferedOffset,
                           !.tableEntries = @ + st.n]
  /\ IF st.err = "nil"
     THEN /\ calls' = [calls EXCEPT ![c] = [@ EXCEPT !.index = st.index, !.pc = "index"]]
          /\ UNCHANGED finalizeOnce
     ELSE /\ calls' = [calls EXCEPT ![c] = [@ EXCEPT !.index = st.index,
                                                     !.err = st.err, !.pc = "post"]]
          /\ finalizeOnce' = [done |-> TRUE, m |-> 0]
  /\ UNCHANGED << readVars, entries, readers, puts >>

\* finalize, lines 143-164: the tables; an error ends the body and the Once
FinalizeTables(c) ==
  /\ calls[c].pc = "tables"
  /\ FinalizeTablesDo(c, Tables(entries, bufferedWriter, writer, bufferedOffset))

FinalizeIndexDo(c, r) ==
  /\ bufferedWriter' = r.bw
  /\ writer' = r.sink
  /\ hist' = [hist EXCEPT !.headerWrites = @ + (IF r.wrote THEN 1 ELSE 0)]
  /\ calls' = [calls EXCEPT ![c] = [@ EXCEPT !.err = r.err, !.pc = "post"]]
  /\ finalizeOnce' = [done |-> TRUE, m |-> 0]
  /\ UNCHANGED << readVars, entries, bufferedOffset, readers, puts >>

\* finalize, lines 166-191: flush, drop the buffer, write the header; the Once is done
FinalizeIndex(c) ==
  /\ calls[c].pc = "index"
  /\ FinalizeIndexDo(c, WriteIndex(bufferedWriter, writer, calls[c].index))

\* Close after the Once: the error, or closer.Close()
CloseReturn(c) ==
  /\ calls[c].pc = "post"
  /\ calls[c].kind = "Close"
  /\ IF calls[c].err # "nil"
     THEN /\ calls' = [calls EXCEPT ![c] = [@ EXCEPT !.ret = calls[c].err, !.pc = "done"]]
          /\ UNCHANGED writer
     ELSE /\ calls' = [calls EXCEPT ![c] = [@ EXCEPT
                         !.ret = IF writer.closed THEN "ErrClosed" ELSE "nil",
                         !.pc = "done"]]
          /\ writer' = [writer EXCEPT !.closed = TRUE]
  /\ UNCHANGED << readVars, entries, bufferedOffset, bufferedWriter, finalizeOnce, readers,
                  puts, hist >>

\* a type assertion that always succeeds
AssertAny(w) == TRUE

\* readerAt, ok := cdb.writer.(io.ReaderAt)
AssertReaderAt(w) == w.readerAt

\* Freeze after the Once: the error, or &CDB{reader, index}, or os.ErrInvalid
FreezeReturn(c) ==
  /\ calls[c].pc = "post"
  /\ calls[c].kind = "Freeze"
  /\ IF calls[c].err # "nil"
     THEN /\ calls' = [calls EXCEPT ![c] = [@ EXCEPT !.ret = calls[c].err, !.pc = "done"]]
          /\ UNCHANGED readers
     ELSE IF AssertReaderAt(writer)
     THEN /\ calls' = [calls EXCEPT ![c] = [@ EXCEPT !.ret = "reader", !.pc = "done"]]
          /\ readers' = Append(readers, [index |-> calls[c].index, call |-> c])
     ELSE /\ calls' = [calls EXCEPT ![c] = [@ EXCEPT !.ret = "ErrInvalid", !.pc = "done"]]
          /\ UNCHANGED readers
  /\ UNCHANGED << readVars, entries, bufferedOffset, bufferedWriter, finalizeOnce, writer,
                  puts, hist >>

\* one step of the call c
CallStep(c) ==
  \/ OnceSkip(c)
  \/ OnceEnter(c)
  \/ FinalizeTables(c)
  \/ FinalizeIndex(c)
  \/ CloseReturn(c)
  \/ FreezeReturn(c)

\* no other call is between its start and its return
Alone(c) == \A d \in DOMAIN calls : d # c => ~InCall(d)

\* ------------------------------------------------------------ the reader CDB
\* what Get and getValueAt return: ([]byte, error); nil and the empty slice differ
Nil == [nil |-> TRUE, val |-> << >>, err |-> "nil"]

Found(v) == [nil |-> FALSE, val |-> v, err |-> "nil"]

Failed(e) == [nil |-> TRUE, val |-> << >>, err |-> e]

\* the two uint32 of the 8 bytes read
TupleOf(r) ==
  IF ~r.ok THEN [ok |-> FALSE, first |-> WZero, second |-> WZero]
  ELSE [ok |-> TRUE, first |-> LEUint32(SubSeq(SeqOf(r.bytes), 1, 4)),
                     second |-> LEUint32(SubSeq(SeqOf(r.bytes), 5, 8))]

\* readTuple(reader, offset): ReadAt of 8 bytes, decoded
readTuple(s, offset) == TupleOf(ReadAt(s, offset, Wide(8)))

\* the table of bucket i in the 2048 bytes q of the header
TableAt(q, i) ==
  [offset |-> LEUint32(SubSeq(q, 8 * i + 1, 8 * i + 4)),
   length |-> LEUint32(SubSeq(q, 8 * i + 5, 8 * i + 8))]

IndexOf(r) ==
  IF ~r.ok THEN [ok |-> FALSE, index |-> ZeroIndex]
  ELSE [ok |-> TRUE, index |-> [i \in Buckets |-> TableAt(SeqOf(r.bytes), i)]]

\* readIndex: ReadAt(buf, 0) of indexSize bytes, 256 tables decoded
readIndex(s) == IndexOf(ReadAt(s, WZero, Wide(indexSize)))

\* getValueAt without the comparison of the key's bytes
ValueReadAny(r, keyLength, expectedKey) ==
  IF ~r.ok THEN Failed("io")
  ELSE IF WLess(BLen(r.bytes), keyLength) THEN Failed("panic")
  ELSE Found(BDrop(r.bytes, keyLength))

\* bytes.Compare(buf[:keyLength], expectedKey) != 0, then buf[keyLength:]; buf is
\* shorter than keyLength when keyLength + valueLength wrapped
ValueRead(r, keyLength, expectedKey) ==
  IF ~r.ok THEN Failed("io")
  ELSE IF WLess(BLen(r.bytes), keyLength) THEN Failed("panic")
  ELSE IF BTake(r.bytes, keyLength) # BytesOf(expectedKey) THEN Nil
  ELSE Found(BDrop(r.bytes, keyLength))

\* getValueAt after its readTuple t
ValueAt(s, offset, expectedKey, t) ==
  IF ~t.ok THEN Failed("io")
  ELSE IF t.first # Wide(Len(expectedKey)) THEN Nil
  ELSE ValueRead(ReadAt(s, Uint32(WAdd(offset, Wide(8))),
                        Uint32(WAdd(t.first, t.second))),
                 t.first, expectedKey)

getValueAt(s, offset, expectedKey) ==
  ValueAt(s, offset, expectedKey, readTuple(s, offset))

\* (hash >> 8) % table.length, for table.length > 0
StartingSlot(hash, length) ==
  IF Hi(length) >= 256 THEN Wide(Hi(hash) * 256 + Lo(hash) \div 256)
  ELSE Wide((Hi(hash) * 256 + Lo(hash) \div 256) % WInt(length))

\* (slot + 1) % table.length, for slot < table.length
NextSlot(slot, length) ==
  IF WAdd(slot, Wide(1)) = length THEN WZero ELSE WAdd(slot, Wide(1))

\* table.offset + (8 * slot), in uint32
SlotOffset(table, slot) ==
  Uint32(WAdd(table.offset,
              << Hi(slot) * 8 + (Lo(slot) * 8) \div W16, (Lo(slot) * 8) % W16 >>))

\* the end of an iteration without the check of the starting slot (the loop of
\* src/unnamed/part_002, lines 62-86)
ProbeAdvanceNoGuard(startingSlot, next) == [done |-> FALSE, res |-> Nil, slot |-> next]

\* the end of an iteration of Get's loop: if slot == startingSlot { break }
ProbeAdvance(startingSlot, next) ==
  [done |-> next = startingSlot, res |-> Nil, slot |-> next]

\* else if slotHash == hash: the value of getValueAt, v
ProbeValue(table, startingSlot, slot, v) ==
  IF v.err # "nil" \/ ~v.nil THEN [done |-> TRUE, res |-> v, slot |-> slot]
  ELSE ProbeAdvance(startingSlot, NextSlot(slot, table.length))

\* the iteration after its readTuple t
ProbeTuple(s, table, hash, key, startingSlot, slot, t) ==
  IF ~t.ok THEN [done |-> TRUE, res |-> Failed("io"), slot |-> slot]
  ELSE IF t.first = WZero THEN [done |-> TRUE, res |-> Nil, slot |-> slot]
  ELSE IF t.first = hash
       THEN ProbeValue(table, startingSlot, slot, getValueAt(s, t.second, key))
  ELSE ProbeAdvance(startingSlot, NextSlot(slot, table.length))

\* one iteration of the loop of Get: [done, res, slot]
ProbeStep(s, table, hash, key, startingSlot, slot) ==
  ProbeTuple(s, table, hash, key, startingSlot, slot,
             readTuple(s, SlotOffset(table, slot)))

RECURSIVE GetLoop(_, _, _, _, _, _)
GetProbed(s, table, hash, key, startingSlot, p) ==
  IF p.done THEN p.res ELSE GetLoop(s, table, hash, key, startingSlot, p.slot)

GetLoop(s, table, hash, key, startingSlot, slot) ==
  GetProbed(s, table, hash, key, startingSlot,
            ProbeStep(s, table, hash, key, startingSlot, slot))

GetFrom(s, table, hash, key, startingSlot) ==
  GetLoop(s, table, hash, key, startingSlot, startingSlot)

GetIn(s, table, hash, key) ==
  IF table.length = WZero THEN Nil
  ELSE GetFrom(s, table, hash, key, StartingSlot(hash, table.length))

GetHashed(cdb, s, key, hash) == GetIn(s, cdb.index[TableOf(hash)], hash, key)

\* Get(key) on the reader cdb, whose io.ReaderAt is the sink s
Get(cdb, s, key) == GetHashed(cdb, s, key, CDBHashSum32(key))

\* Each with a visitor that fails at its failAt-th call (never, for 0): the pairs
\* handed to the visitor and the error returned
RECURSIVE EachFrom(_, _, _, _, _)
EachVisited(s, endPos, next, seen, failAt) ==
  IF Len(seen) = failAt THEN [seen |-> seen, err |-> "visitor"]
  ELSE EachFrom(s, endPos, next, seen, failAt)

EachRead(s, endPos, pos, t, r, seen, failAt) ==
  IF ~r.ok THEN [seen |-> seen, err |-> "io"]
  ELSE IF WLess(BLen(r.bytes), t.first) THEN [seen |-> seen, err |-> "panic"]
  ELSE EachVisited(s, endPos,
                   Uint32(WAdd(pos, WAdd(Wide(8), WAdd(t.first, t.second)))),
                   Append(seen, << BTake(r.bytes, t.first), BDrop(r.bytes, t.first) >>),
                   failAt)

EachTuple(s, endPos, pos, t, seen, failAt) ==
  IF ~t.ok THEN [seen |-> seen, err |-> "io"]
  ELSE EachRead(s, endPos, pos, t,
                ReadAt(s, Uint32(WAdd(pos, Wide(8))), Uint32(WAdd(t.first, t.second))),
                seen, failAt)

EachFrom(s, endPos, pos, seen, failAt) ==
  IF ~WLess(pos, endPos) THEN [seen |-> seen, err |-> "nil"]
  ELSE EachTuple(s, endPos, pos, readTuple(s, pos), seen, failAt)

Each(cdb, s, failAt) == EachFrom(s, cdb.index[0].offset, Wide(indexSize), << >>, failAt)

\* ------------------------------------------------------------ Get, step by step
IdleProbe ==
  [pc |-> "idle", key |-> << >>, hash |-> WZero,
   table |-> [offset |-> WZero, length |-> WZero],
   start |-> WZero, slot |-> WZero, reads |-> 0, res |-> Nil]

\* Get up to its loop: the hash, the table, return nil, nil if table.length == 0
GetStartAt(key, hash, table, startingSlot) ==
  probe' = [pc |-> IF table.length = WZero THEN "done" ELSE "loop",
            key |-> key, hash |-> hash, table |-> table,
            start |-> startingSlot, slot |-> startingSlot, reads |-> 0, res |-> Nil]

GetStartIn(key, hash, table) ==
  GetStartAt(key, hash, table,
             IF table.length = WZero THEN WZero ELSE StartingSlot(hash, table.length))

GetStartHashed(key, hash) == GetStartIn(key, hash, readers[1].index[TableOf(hash)])

GetStart(key) ==
  /\ readers # << >>
  /\ probe.pc \in {"idle", "done"}
  /\ GetStartHashed(key, CDBHashSum32(key))
  /\ UNCHANGED << entries, bufferedOffset, bufferedWriter, finalizeOnce, writer, calls,
                  readers, callers, digest, puts, hist >>

GetStepTo(p) ==
  probe' = [probe EXCEPT !.pc = IF p.done THEN "done" ELSE "loop",
                         !.slot = p.slot, !.res = p.res, !.reads = @ + 1]

\* one iteration of the loop of Get: one readTuple of a slot
GetStep ==
  /\ probe.pc = "loop"
  /\ GetStepTo(ProbeStep(writer, probe.table, probe.hash, probe.key, probe.start,
                         probe.slot))
  /\ UNCHANGED << entries, bufferedOffset, bufferedWriter, finalizeOnce, writer, calls,
                  readers, callers, digest, puts, hist >>

\* ------------------------------------------------------------ Get and Each by several callers
\* callers that use one reader at a time
MaxCallers == 2

\* calls of Close on one CDB
MaxCloses == 2

IdleCaller ==
  [kind |-> "none", pc |-> "idle", key |-> << >>, hash |-> WZero,
   table |-> [offset |-> WZero, length |-> WZero], start |-> WZero, slot |-> WZero,
   reads |-> 0, res |-> Nil, endPos |-> WZero, pos |-> WZero, seen |-> << >>,
   failAt |-> 0, err |-> "nil", overlap |-> FALSE]

NoCallers == [c \in 1..MaxCallers |-> IdleCaller]

\* func newCDBHash
newCDBHash == [v |-> Wide(start), written |-> << >>, writes |-> 0]

\* a visitor whose error Each does not look at
EachIterVisitedOn(next, seen, failAt) ==
  [done |-> FALSE, pos |-> next, seen |-> seen, err |-> "nil"]

\* one iteration of the loop of Each: [done, pos, seen, err]
EachIterVisited(next, seen, failAt) ==
  IF Len(seen) = failAt THEN [done |-> TRUE, pos |-> next, seen |-> seen, err |-> "visitor"]
  ELSE [done |-> FALSE, pos |-> next, seen |-> seen, err |-> "nil"]

EachIterRead(pos, t, r, seen, failAt) ==
  IF ~r.ok THEN [done |-> TRUE, pos |-> pos, seen |-> seen, err |-> "io"]
  ELSE IF WLess(BLen(r.bytes), t.first)
       THEN [done |-> TRUE, pos |-> pos, seen |-> seen, err |-> "panic"]
  ELSE EachIterVisited(Uint32(WAdd(pos, WAdd(Wide(8), WAdd(t.first, t.second)))),
                       Append(seen, << BTake(r.bytes, t.first), BDrop(r.bytes, t.first) >>),
                       failAt)

EachIterTuple(s, pos, t, seen, failAt) ==
  IF ~t.ok THEN [done |-> TRUE, pos |-> pos, seen |-> seen, err |-> "io"]
  ELSE EachIterRead(pos, t,
                    ReadAt(s, Uint32(WAdd(pos, Wide(8))), Uint32(WAdd(t.first, t.second))),
                    seen, failAt)

EachIter(s, endPos, pos, seen, failAt) ==
  IF ~WLess(pos, endPos) THEN [done |-> TRUE, pos |-> pos, seen |-> seen, err |-> "nil"]
  ELSE EachIterTuple(s, pos, readTuple(s, pos), seen, failAt)

\* another caller is inside a loop of Get or Each
Overlaps(c) == \E d \in DOMAIN callers : d # c /\ callers[d].pc = "loop"

\* the locals of a Get up to its loop
GetLocalsAt(key, hash, table, startingSlot) ==
  [IdleCaller EXCEPT !.kind = "Get",
                     !.pc = IF table.length = WZero THEN "done" ELSE "loop",
                     !.key = key, !.hash = hash, !.table = table,
                     !.start = startingSlot, !.slot = startingSlot]

GetLocalsIn(key, hash, table) ==
  GetLocalsAt(key, hash, table,
              IF table.length = WZero THEN WZero ELSE StartingSlot(hash, table.length))

GetLocals(cdb, key, hash) == GetLocalsIn(key, hash, cdb.index[TableOf(hash)])

\* a caller enters Get(key) on readers[1]
CallerGet(c, key) ==
  /\ readers # << >>
  /\ callers[c].pc = "idle"
  /\ callers' = [callers EXCEPT ![c] = GetLocals(readers[1], key, CDBHashSum32(key))]
  /\ UNCHANGED << entries, bufferedOffset, bufferedWriter, finalizeOnce, writer, calls,
                  readers, probe, digest, puts, hist >>

\* a reader that keeps the probe's slot and result in the CDB, not in the call: an
\* iteration of one Get sets them for every Get in progress
GetSteppedShared(cs, c, p, over) ==
  [d \in DOMAIN cs |->
     IF d = c
     THEN [cs[d] EXCEPT !.pc = IF p.done THEN "done" ELSE "loop",
                        !.slot = p.slot, !.res = p.res, !.reads = @ + 1,
                        !.overlap = @ \/ over]
     ELSE IF cs[d].kind = "Get" /\ cs[d].pc = "loop"
          THEN [cs[d] EXCEPT !.slot = p.slot, !.res = p.res]
          ELSE cs[d]]

\* the callers after caller c's iteration p of the loop of Get: its slot, its result
GetStepped(cs, c, p, over) ==
  [cs EXCEPT ![c] = [@ EXCEPT !.pc = IF p.done THEN "done" ELSE "loop",
                              !.slot = p.slot, !.res = p.res, !.reads = @ + 1,
                              !.overlap = @ \/ over]]

\* one iteration of the loop of Get by caller c
CallerGetStep(c) ==
  /\ callers[c].kind = "Get"
  /\ callers[c].pc = "loop"
  /\ callers' = GetStepped(callers, c,
                           ProbeStep(writer, callers[c].table, callers[c].hash,
                                     callers[c].key, callers[c].start, callers[c].slot),
                           Overlaps(c))
  /\ UNCHANGED << entries, bufferedOffset, bufferedWriter, finalizeOnce, writer, calls,
                  readers, probe, digest, puts, hist >>

\* a caller enters Each on readers[1], with a visitor that fails at its failAt-th
\* call: pos := indexSize, endPos := cdb.index[0].offset
CallerEach(c, failAt) ==
  /\ readers # << >>
  /\ callers[c].pc = "idle"
  /\ callers' = [callers EXCEPT ![c] =
                   [IdleCaller EXCEPT !.kind = "Each", !.pc = "loop",
                                      !.endPos = readers[1].index[0].offset,
                                      !.pos = Wide(indexSize), !.failAt = failAt]]
  /\ UNCHANGED << entries, bufferedOffset, bufferedWriter, finalizeOnce, writer, calls,
                  readers, probe, digest, puts, hist >>

EachStepped(cs, c, e, over) ==
  [cs EXCEPT ![c] = [@ EXCEPT !.pc = IF e.done THEN "done" ELSE "loop",
                              !.pos = e.pos, !.seen = e.seen, !.err = e.err,
                              !.overlap = @ \/ over]]

\* the loop test and one iteration of the loop of Each by caller c
CallerEachStep(c) ==
  /\ callers[c].kind = "Each"
  /\ callers[c].pc = "loop"
  /\ callers' = EachStepped(callers, c,
                            EachIter(writer, callers[c].endPos, callers[c].pos,
                                     callers[c].seen, callers[c].failAt),
                            Overlaps(c))
  /\ UNCHANGED << entries, bufferedOffset, bufferedWriter, finalizeOnce, writer, calls,
                  readers, probe, digest, puts, hist >>

\* ------------------------------------------------------------ the hash.Hash32
\* Write calls made on one cdbHash
MaxWrites == 2

\* longest data of one Write
MaxChunk == 2

\* the bytes the data is made of
HashBytes == { 0, 97, 255 }

\* the data of one Write: any string of at most MaxChunk bytes
Chunks == UNION { [1..n -> HashBytes] : n \in 0..MaxChunk }

\* a Write that forgets the bytes written before it
WriteFresh(v, data) == CDBHashSum32Update(data, Wide(start))

\* (h *cdbHash).Write: h.uint32 = CDBHashSum32Update(data, h.uint32)
cdbHashWrite(v, data) == CDBHashSum32Update(data, v)

HashWrite(data) ==
  /\ digest.writes < MaxWrites
  /\ digest' = [v |-> cdbHashWrite(digest.v, data),
                written |-> digest.written \o data,
                writes |-> digest.writes + 1]
  /\ UNCHANGED << entries, bufferedOffset, bufferedWriter, finalizeOnce, writer, calls,
                  readers, probe, callers, puts, hist >>

\* (h *cdbHash).Reset: h.uint32 = start
HashReset ==
  /\ digest.written # << >>
  /\ digest' = [digest EXCEPT !.v = Wide(start), !.written = << >>]
  /\ UNCHANGED << entries, bufferedOffset, bufferedWriter, finalizeOnce, writer, calls,
                  readers, probe, callers, puts, hist >>

\* ------------------------------------------------------------ specifications
\* no Close or Freeze has been called yet
NoCall == \A c \in DOMAIN calls : calls[c].pc = "idle"

NoHistory ==
  [finalizeRuns |-> 0, tableRuns |-> 0, headerWrites |-> 0, runner |-> 0, stored |-> 0,
   tablesAt |-> WZero, tableEntries |-> 0, closerCalls |-> 0, closeRets |-> << >>]

NoCalls ==
  [c \in 1..MaxCalls |-> [kind |-> "none", pc |-> "idle", err |-> "nil",
                          index |-> ZeroIndex, ret |-> "none"]]

InitWith(readerAt) ==
  /\ NewWriter(readerAt)
  /\ calls = NoCalls
  /\ readers = << >>
  /\ probe = IdleProbe
  /\ callers = NoCallers
  /\ digest = newCDBHash
  /\ puts = << >>
  /\ hist = NoHistory

\* a Writer on a file (a sink that is an io.ReaderAt and an io.Closer)
Init == InitWith(TRUE)

\* one producer; Close and Freeze called one after the other; Puts of any key
\* before the first of them, of two keys after it
Next ==
  \/ \E kv \in PutInputs : Len(puts) < MaxPuts /\ NoCall /\ Put(kv[1], kv[2])
  \/ \E k \in LateKeys : Len(puts) < MaxPuts /\ ~NoCall /\ Put(k, VShort)
  \/ \E c \in 1..MaxCalls, kind \in {"Close", "Freeze"} : Alone(c) /\ CallStart(c, kind)
  \/ \E c \in 1..MaxCalls : CallStep(c)

Spec == Init /\ [][Next]_vars

\* Close and Freeze called concurrently, on a sink that is or is not an io.ReaderAt
InitConc == \E ra \in BOOLEAN : InitWith(ra)

NextConc ==
  \/ \E k \in LateKeys : Len(puts) < MaxPuts /\ Put(k, VShort)
  \/ \E c \in 1..MaxCalls, kind \in {"Close", "Freeze"} : CallStart(c, kind)
  \/ \E c \in 1..MaxCalls : CallStep(c)

SpecConc == InitConc /\ [][NextConc]_vars

\* a Writer given values of nearly 4 GiB
NextCap ==
  \/ \E k \in LateKeys, v \in CapValues : Len(puts) < MaxCapPuts /\ Put(k, v)
  \/ \E c \in 1..MaxCalls, kind \in {"Close", "Freeze"} : Alone(c) /\ CallStart(c, kind)
  \/ \E c \in 1..MaxCalls : CallStep(c)

SpecCap == Init /\ [][NextCap]_vars

\* what Put emits for one record
RecordBytes(key, value) ==
  BCat(BCat(TupleBytes(Wide(Len(key)), BLen(value)), BytesOf(key)), value)

\* the slots a table handed to Get is made of: the hash of KCol1 with the offset of
\* its record, the hash of KB0 with the offset of that same record, an empty slot
ProbeSlots ==
  { << CDBHashSum32(KCol1), Wide(indexSize) >>,
    << CDBHashSum32(KB0), Wide(indexSize) >>,
    << WZero, WZero >> }

RECURSIVE SlotBytes(_)
SlotBytes(slots) ==
  IF slots = << >> THEN << >>
  ELSE BCat(TupleBytes(slots[1][1], slots[1][2]), SlotBytes(Tail(slots)))

\* a file: the header, the record of KCol1, one table; the buckets of KCol1 and of
\* KB0 both name that table
ProbeIndex(rec, slots) ==
  [i \in Buckets |->
     IF i \in { TableOf(CDBHashSum32(KCol1)), TableOf(CDBHashSum32(KB0)) }
     THEN [offset |-> WAdd(Wide(indexSize), BLen(rec)), length |-> Wide(Len(slots))]
     ELSE [offset |-> WZero, length |-> WZero]]

ProbeFileOf(rec, slots) ==
  BCat(BCat(IndexBytes(ProbeIndex(rec, slots)), rec), SlotBytes(slots))

ProbeFile(slots) == ProbeFileOf(RecordBytes(KCol1, VShort), slots)

\* New(reader): &CDB{reader: reader}, readIndex
NewCDB(s) == [index |-> readIndex(s).index, call |-> 0]

New(s) ==
  /\ writer = s
  /\ readers = << NewCDB(s) >>

\* Open(path) on the file the Writer wrote: os.Open, a fresh handle on its bytes
Open(s) == [s EXCEPT !.closed = FALSE, !.pos = WZero]

\* a CDB opened by New on a file; no Writer: its fields hold their zero values
InitGet ==
  /\ \E n \in 1..MaxSlots : \E slots \in [1..n -> ProbeSlots] :
       New([file |-> ProbeFile(slots), pos |-> WZero, closed |-> FALSE,
            readerAt |-> TRUE])
  /\ entries = [i \in Buckets |-> << >>]
  /\ bufferedOffset = WZero
  /\ bufferedWriter = NilWriter
  /\ finalizeOnce = [done |-> FALSE, m |-> 0]
  /\ calls = NoCalls
  /\ probe = IdleProbe
  /\ callers = NoCallers
  /\ digest = newCDBHash
  /\ puts = << >>
  /\ hist = NoHistory

GetKeys == { KCol1, KCol2, KB0, KZero1 }

\* closer.Close() on the file: the first call closes it, a later one fails
FileClose(s) == [sink |-> [s EXCEPT !.closed = TRUE],
                 err |-> IF s.closed THEN "ErrClosed" ELSE "nil"]

CDBCloseDo(r) ==
  /\ writer' = r.sink
  /\ hist' = [hist EXCEPT !.closerCalls = @ + 1, !.closeRets = Append(@, r.err)]
  /\ UNCHANGED << entries, bufferedOffset, bufferedWriter, finalizeOnce, calls, readers,
                  probe, callers, digest, puts >>

\* CDB.Close: cdb.reader is a file, an io.Closer: return closer.Close()
CDBClose ==
  /\ readers # << >>
  /\ Len(hist.closeRets) < MaxCloses
  /\ CDBCloseDo(FileClose(writer))

NextGet ==
  \/ \E k \in GetKeys : GetStart(k)
  \/ GetStep
  \/ CDBClose

SpecGet == InitGet /\ [][NextGet]_vars

\* keys of the stores that several callers read, in the order they are Put: two
\* keys of bucket 36 with one hash, a key of bucket 0, a key of bucket 0 whose hash
\* is 0
ReadKeys == << KCol1, KCol2, KB0, KZero1 >>

\* the i-th key may be Put: the keys Put so far come before it
InOrder(i) == \A j \in DOMAIN puts : \E h \in 1..(i - 1) : puts[j].key = ReadKeys[h]

\* a caller starts after the callers before it
Ready(c) == c > 1 => callers[c - 1].pc # "idle"

\* one Freeze, then Get and Each by several callers, their iterations interleaved
NextRead ==
  \/ \E i \in DOMAIN ReadKeys :
       Len(puts) < MaxPuts /\ NoCall /\ InOrder(i) /\ Put(ReadKeys[i], VShort)
  \/ NoCall /\ CallStart(1, "Freeze")
  \/ OnceEnter(1)
  \/ FinalizeTables(1)
  \/ FinalizeIndex(1)
  \/ FreezeReturn(1)
  \/ \E c \in 1..MaxCallers, i \in DOMAIN ReadKeys : Ready(c) /\ CallerGet(c, ReadKeys[i])
  \/ \E c \in 1..MaxCallers : CallerGetStep(c)
  \/ \E c \in 1..MaxCallers, failAt \in 0..1 : Ready(c) /\ CallerEach(c, failAt)
  \/ \E c \in 1..MaxCallers : CallerEachStep(c)

SpecRead == Init /\ [][NextRead]_vars

\* a cdbHash fed by Write calls
NextHash ==
  \/ \E data \in Chunks : HashWrite(data)
  \/ HashReset

SpecHash == Init /\ [][NextHash]_vars

\* one Each on the reader of a Freeze, with a visitor that fails at one of its calls
\* or at none; the file may be closed before the Each or between two of its
\* iterations (by the visitor, or by another goroutine)
NextEach ==
  \/ \E i \in DOMAIN ReadKeys :
       Len(puts) < MaxPuts /\ NoCall /\ InOrder(i) /\ Put(ReadKeys[i], VShort)
  \/ NoCall /\ CallStart(1, "Freeze")
  \/ OnceEnter(1)
  \/ FinalizeTables(1)
  \/ FinalizeIndex(1)
  \/ FreezeReturn(1)
  \/ \E failAt \in 0..MaxPuts : CallerEach(1, failAt)
  \/ CallerEachStep(1)
  \/ CDBClose

SpecEach == Init /\ [][NextEach]_vars

\* ------------------------------------------------------------ properties
\* the Puts made before finalize ran: the records of the store
Stored == SubSeq(puts, 1, hist.stored)

DistinctKeys(ps) == \A i, j \in DOMAIN ps : i # j => ps[i].key # ps[j].key

\* the readers returned by the Freeze call that ran finalize, and by the others
FirstReaders == { r \in DOMAIN readers : readers[r].call = hist.runner }

LaterReaders == { r \in DOMAIN readers : readers[r].call # hist.runner }

\* the file behind the readers can be read
Readable == readers # << >> /\ ~writer.closed

\* Get(key) on the reader r gives the value of the i-th stored Put
GetsBack(r, i) == Get(readers[r], writer, Stored[i].key) = Found(Stored[i].value)

\* C1: after Puts of pairwise distinct keys and one successful Freeze, Get on the
\* returned reader gives, for every key Put, the value Put for it.
C1_RoundTrip ==
  (Readable /\ DistinctKeys(Stored)) =>
    \A r \in FirstReaders : \A i \in DOMAIN Stored : GetsBack(r, i)

\* C2: a reader returned by a Freeze that follows an earlier Close or Freeze gives,
\* for every key Put (here: every key whose hash is not 0), the value Put for it.
C2_SecondFreezeRoundTrip ==
  (Readable /\ DistinctKeys(Stored)) =>
    \A r \in LaterReaders : \A i \in DOMAIN Stored :
      CDBHashSum32(Stored[i].key) # WZero => GetsBack(r, i)

\* two stored Puts collide: equal 32-bit hashes, or one bucket and one starting slot
Collide(i, j) ==
  LET hi == CDBHashSum32(Stored[i].key)
      hj == CDBHashSum32(Stored[j].key)
      n == Wide(Cardinality({ k \in DOMAIN Stored :
                                TableOf(CDBHashSum32(Stored[k].key)) = TableOf(hi) }))
  IN  /\ i # j
      /\ \/ hi = hj
         \/ TableOf(hi) = TableOf(hj) /\ StartingSlot(hi, n) = StartingSlot(hj, n)

\* C4: of two distinct keys that were both Put and collide, Get of each gives that
\* key's own value.
C4_Collisions ==
  (Readable /\ DistinctKeys(Stored)) =>
    \A r \in FirstReaders : \A i, j \in DOMAIN Stored :
      Collide(i, j) => GetsBack(r, i)

StoredKeys == { Stored[i].key : i \in DOMAIN Stored }

\* C5: on a store produced by any Puts (or none) followed by finalize, Get of a key
\* that was not Put returns nil with a nil error.
C5_MissingKey ==
  /\ Readable =>
       \A r \in DOMAIN readers : \A k \in Keys \ StoredKeys :
         Get(readers[r], writer, k) = Nil
  /\ hist.headerWrites = 1 =>
       \A k \in Keys \ StoredKeys : Get(NewCDB(Open(writer)), Open(writer), k) = Nil

\* C5, its case: a key is stored, a second key with the same 32-bit hash is not,
\* and Get of the second returns nil, nil
C5_Witness ==
  /\ Readable
  /\ KCol1 \in StoredKeys
  /\ KCol2 \notin StoredKeys
  /\ \E r \in FirstReaders : Get(readers[r], writer, KCol2) = Nil

\* what Each gave is the stored Puts in Put order, and nil
EachGave(e) ==
  /\ e.err = "nil"
  /\ Len(e.seen) = Len(Stored)
  /\ \A i \in DOMAIN Stored : e.seen[i] = << BytesOf(Stored[i].key), Stored[i].value >>

\* C6: on a store of N Puts followed by finalize, Each calls the visitor N times,
\* the i-th time with the key and value of the i-th Put, and returns nil; on the
\* reader of the Freeze that ran finalize and on a reader opened on the file.
C6_EachComplete ==
  /\ Readable => \A r \in FirstReaders : EachGave(Each(readers[r], writer, 0))
  /\ hist.headerWrites = 1 => EachGave(Each(NewCDB(Open(writer)), Open(writer), 0))

\* C6, its case: two records, none in bucket 0, visited
C6_Witness ==
  /\ Readable
  /\ Len(Stored) = 2
  /\ \A i \in DOMAIN Stored : TableOf(CDBHashSum32(Stored[i].key)) # 0
  /\ \E r \in FirstReaders : Len(Each(readers[r], writer, 0).seen) = 2

\* C3: under any interleaving of Close and Freeze calls the finalize body runs
\* exactly once: it is entered at most once, the tables are appended at most once
\* and the header is written at most once; and once any call is past its Do, the
\* body has run, the tables are appended and (finalize having succeeded) the
\* header is written.
C3_FinalizeOnce ==
  /\ hist.finalizeRuns <= 1
  /\ hist.tableRuns <= 1
  /\ hist.headerWrites <= 1
  /\ \A c \in DOMAIN calls :
       calls[c].pc \in {"post", "done"} =>
         /\ hist.finalizeRuns = 1
         /\ hist.tableRuns = 1
         /\ calls[hist.runner].err = "nil" => hist.headerWrites = 1

\* C3, its case: the second caller runs finalize while the first, which started
\* earlier, waits in Do; later both have returned
C3_Witness ==
  /\ hist.runner = 2
  /\ calls[1].pc = "done"
  /\ calls[2].pc = "done"
  /\ calls[1].kind = "Freeze"
  /\ calls[2].kind = "Close"
  /\ hist.headerWrites = 1
  /\ Len(puts) > 0

\* C7: the probe loop of Get reads at most table.length entries: while it runs it
\* has read fewer, and when it has ended it has read no more.
C7_GetTerminates ==
  /\ probe.pc = "loop" => probe.reads < WInt(probe.table.length)
  /\ probe.pc = "done" => probe.reads <= WInt(probe.table.length)

\* C7, its case: a table of two slots, none empty and none of the key, probed from
\* slot 1 round to slot 0, ends not found after two reads
C7_Witness ==
  /\ probe.pc = "done"
  /\ probe.key = KB0
  /\ probe.table.length = Wide(2)
  /\ probe.start = Wide(1)
  /\ probe.reads = 2
  /\ probe.res = Nil
  /\ \A j \in 0..1 :
       readTuple(writer, SlotOffset(probe.table, Wide(j))).first # WZero

\* C9: once finalize has run, a Put fails and changes neither the bucket lists,
\* nor the tracked offset, nor the bytes of the store.
C9_PutRejected ==
  [][(hist.finalizeRuns > 0 /\ finalizeOnce.done /\ puts' # puts) =>
       /\ puts'[Len(puts')].res # "nil"
       /\ entries' = entries
       /\ bufferedOffset' = bufferedOffset
       /\ writer'.file = writer.file]_vars

\* 2048 plus the bytes of the first n records
RECURSIVE RecordsEnd(_, _)
RecordsEnd(ps, n) ==
  IF n = 0 THEN Wide(indexSize)
  ELSE WAdd(RecordsEnd(ps, n - 1), WAdd(Wide(8 + Len(ps[n].key)), BLen(ps[n].value)))

\* the buckets of the stored Puts, in Put order
StoredBuckets ==
  SubSeq([i \in 1..Len(Stored) |-> TableOf(CDBHashSum32(Stored[i].key))], 1, Len(Stored))

\* the stored Puts of bucket b, in Put order, and how many fall in lower buckets
BucketPuts(bs, b) == SelectSeq([i \in 1..Len(bs) |-> i], LAMBDA i : bs[i] = b)

CountBelow(bs, b) == Cardinality({ i \in DOMAIN bs : bs[i] < b })

\* the two uint32 at offset off of the file
FileTuple(off) == TupleOf([ok |-> TRUE, bytes |-> BSlice(writer.file, off, Wide(8))])

\* the header of the file, decoded
FileIndex == IndexOf([ok |-> TRUE, bytes |-> BTake(writer.file, Wide(indexSize))]).index

\* bucket b, with header entry t and Puts ps, is laid out as the claim says, D the
\* end of the records and below the entries of the lower buckets
LayoutOf(t, ps, D, below) ==
  /\ t.length = Wide(Len(ps))
  /\ t.offset = WAdd(D, Wide(8 * below))
  /\ \A j \in DOMAIN ps :
       LET e == FileTuple(WAdd(t.offset, Wide(8 * (j - 1))))
       IN  /\ e.first = CDBHashSum32(Stored[ps[j]].key)
           /\ e.second = RecordsEnd(Stored, ps[j] - 1)

LayoutIn(D, index, bs) ==
  /\ BLen(writer.file) = WAdd(D, Wide(8 * Len(Stored)))
  /\ \A b \in Buckets : LayoutOf(index[b], BucketPuts(bs, b), D, CountBelow(bs, b))

\* C10: after a successful finalize, header entry i holds the number of Puts of
\* bucket i and the offset D + 8 * (entries of the buckets below i), the table of
\* bucket i is the (hash, record start) pairs of those Puts in Put order, and the
\* file ends with the last table.
C10_Layout ==
  hist.headerWrites = 1 =>
    LayoutIn(RecordsEnd(Stored, Len(Stored)), FileIndex, StoredBuckets)

\* C10, its case: two records, the second Put in the lower bucket, finalized
C10_Witness ==
  /\ hist.headerWrites = 1
  /\ Len(Stored) = 2
  /\ Stored[1].key = KCol1
  /\ Stored[2].key = KB0
  /\ FileTuple(RecordsEnd(Stored, 2)).first = CDBHashSum32(KB0)

\* C8, Put: a Put that returned nil or ErrTooMuchData returned ErrTooMuchData
\* exactly when its offset passed maxUint32
C8_PutCeiling ==
  \A i \in DOMAIN puts :
    puts[i].res \in {"nil", "ErrTooMuchData"} =>
      (puts[i].res = "ErrTooMuchData" <=>
         TooMuch(PutAdvance(puts[i].start, puts[i].key, puts[i].value)))

\* C8, finalize: it returns ErrTooMuchData exactly when appending the table
\* entries takes the offset past maxUint32
C8_FinalizeCeiling ==
  (hist.runner # 0 /\ calls[hist.runner].pc \in {"post", "done"}) =>
    (calls[hist.runner].err = "ErrTooMuchData" <=>
       (hist.stored > 0 /\ TooMuch(WAdd(hist.tablesAt, Wide(8 * hist.stored)))))

\* C8, the offsets in the sink: every table entry of finalize that has reached the
\* sink holds the start of a record, and every header entry the place of its table
C8_NoTruncatedOffset ==
  /\ \A j \in 0..(hist.tableEntries - 1) :
       WLeq(WAdd(hist.tablesAt, Wide(8 * j + 8)), BLen(writer.file)) =>
         \E i \in DOMAIN puts :
           FileTuple(WAdd(hist.tablesAt, Wide(8 * j))).second = puts[i].start
  /\ hist.headerWrites = 1 =>
       \A b \in Buckets :
         FileIndex[b].offset = WAdd(hist.tablesAt, Wide(8 * CountBelow(StoredBuckets, b)))

\* C8: the capacity ceiling: Put and finalize return ErrTooMuchData when the offset
\* passes 2^32 - 1, and no offset truncated modulo 2^32 is written to the store.
C8_Ceiling == C8_PutCeiling /\ C8_FinalizeCeiling /\ C8_NoTruncatedOffset

\* what the call of caller c returned is what the same call returns when run alone
SameAsAlone(c) ==
  IF callers[c].kind = "Get"
  THEN callers[c].res = Get(readers[1], writer, callers[c].key)
  ELSE [seen |-> callers[c].seen, err |-> callers[c].err]
         = Each(readers[1], writer, callers[c].failAt)

\* C11: with the iterations of several callers' Get and Each calls on one reader
\* interleaved in any way, each call returns what it returns when run alone, and no
\* step of a Get or an Each changes the reader's index or the bytes of the store.
C11_ConcurrentReaders ==
  /\ [](\A c \in DOMAIN callers : callers[c].pc = "done" => SameAsAlone(c))
  /\ [][callers' # callers => (readers' = readers /\ writer' = writer)]_vars

\* C11, its case: a Get that took two reads and an Each that visited two records
\* have both returned, each having run while the other was inside its loop
C11_Witness ==
  /\ callers[1].pc = "done"
  /\ callers[1].kind = "Get"
  /\ callers[1].reads = 2
  /\ callers[1].overlap
  /\ callers[2].pc = "done"
  /\ callers[2].kind = "Each"
  /\ Len(callers[2].seen) = 2
  /\ callers[2].overlap


\* C12: on a Writer whose sink is not an io.ReaderAt, every Freeze that has
\* returned, the first and each later one, returned os.ErrInvalid, and no reader
\* exists; the finalize body has nevertheless run exactly once and written the
\* header once.
C12_FreezeUnsupported ==
  ~writer.readerAt =>
    /\ readers = << >>
    /\ \A c \in DOMAIN calls :
         (calls[c].pc = "done" /\ calls[c].kind = "Freeze") =>
           /\ calls[c].ret = "ErrInvalid"
           /\ hist.finalizeRuns = 1
           /\ hist.tableRuns = 1
           /\ hist.headerWrites = 1

\* C12, its case: two Freeze calls on such a Writer have both returned, after a Put
C12_Witness ==
  /\ ~writer.readerAt
  /\ Len(puts) > 0
  /\ \A c \in 1..2 : calls[c].pc = "done" /\ calls[c].kind = "Freeze"
                      /\ calls[c].ret = "ErrInvalid"
  /\ hist.finalizeRuns = 1

\* C13: Close on a CDB that is already closed is a no-op: it returns nil and the
\* underlying handle's Close is called once at most, however often the CDB is
\* closed.
C13_CloseIdempotent ==
  /\ hist.closerCalls <= 1
  /\ \A i \in DOMAIN hist.closeRets : hist.closeRets[i] = "nil"

\* C14: the hash composes. After any Write calls the cdbHash holds the 32-bit value
\* that one CDBHashSum32 call gives on the concatenation of their data, and for
\* every split of that concatenation into a and b,
\* CDBHashSum32Update(b, CDBHashSum32(a)) = CDBHashSum32(a + b).
C14_HashComposable ==
  /\ Hi(digest.v) \in 0..(W16 - 1)
  /\ Lo(digest.v) \in 0..(W16 - 1)
  /\ digest.v = CDBHashSum32(digest.written)
  /\ \A k \in 0..Len(digest.written) :
       CDBHashSum32Update(SubSeq(digest.written, k + 1, Len(digest.written)),
                          CDBHashSum32(SubSeq(digest.written, 1, k)))
         = CDBHashSum32(digest.written)

\* C14, its case: two Writes of two bytes each; the fold has passed 2^32 and
\* wrapped (5381 * 33^4 > 2^32): 2087552837 = 31853 * 2^16 + 34629
C14_Witness ==
  /\ digest.writes = 2
  /\ digest.written = << 97, 97, 97, 97 >>
  /\ digest.v = << 31853, 34629 >>

\* C15: a finalize failure is not lost: once the finalize body has returned an
\* error, every Close or Freeze that has returned, the first or a later one,
\* returned an error, and no reader exists.
C15_FailureKept ==
  (hist.runner # 0 /\ calls[hist.runner].err # "nil") =>
    /\ readers = << >>
    /\ \A c \in DOMAIN calls :
         calls[c].pc = "done" => calls[c].ret \notin {"nil", "reader"}

\* the Writer has returned ErrTooMuchData: from a Put, or from finalize
ToldTooMuch ==
  \/ \E i \in DOMAIN puts : puts[i].res = "ErrTooMuchData"
  \/ \E c \in DOMAIN calls : calls[c].pc = "done" /\ calls[c].ret = "ErrTooMuchData"

\* C16: after a Put or a finalize has returned ErrTooMuchData the Writer writes
\* nothing more: no later step of a Put, a Close or a Freeze changes the bytes of
\* the store (the header included), the buffered bytes or the pending entries.
C16_NoWritesAfterTooMuch ==
  [][ToldTooMuch =>
       /\ writer'.file = writer.file
       /\ bufferedWriter' = bufferedWriter
       /\ entries' = entries]_vars

\* C17: a Get on a bucket that has entries returns not-found only after it has
\* read all of the bucket's entries: the number of slots it has read is the
\* bucket's length.
C17_FullCycleOnly ==
  \A c \in DOMAIN callers :
    (/\ callers[c].pc = "done"
     /\ callers[c].kind = "Get"
     /\ callers[c].res = Nil
     /\ callers[c].table.length # WZero) =>
      Wide(callers[c].reads) = callers[c].table.length

\* the slots of a table whose stored hash is hash
HashMatches(table, hash) ==
  { j \in 0..(WInt(table.length) - 1) : FileTuple(SlotOffset(table, Wide(j))).first = hash }

\* the stored Puts whose record is the one the slot j of the table points to
SlotRecords(table, j) ==
  { i \in DOMAIN Stored : Stored[i].start = FileTuple(SlotOffset(table, Wide(j))).second }

\* a value returned by Get is the value of a record with the queried key that has
\* an entry with the key's hash in the key's bucket
GetSound(cdb, key, hash) ==
  LET g == Get(cdb, writer, key)
      table == cdb.index[TableOf(hash)]
  IN  (g.err = "nil" /\ ~g.nil) =>
        \E j \in HashMatches(table, hash) : \E i \in SlotRecords(table, j) :
          Stored[i].key = key /\ g = Found(Stored[i].value)

\* the iteration that gave p did what going on to the next slot, a, does
ProbeGoesOn(p, a) == p.done = a.done /\ p.res = a.res /\ (~p.done => p.slot = a.slot)

\* at an entry with the key's hash whose record holds another key, the iteration
\* of the probe yields no value and goes on to the next slot
GetContinues(cdb, key, hash) ==
  LET table == cdb.index[TableOf(hash)]
      startingSlot == StartingSlot(hash, table.length)
  IN  \A j \in HashMatches(table, hash) : \A i \in SlotRecords(table, j) :
        Stored[i].key # key =>
          ProbeGoesOn(ProbeStep(writer, table, hash, key, startingSlot, Wide(j)),
                      ProbeAdvance(startingSlot, NextSlot(Wide(j), table.length)))

\* C18: Get is sound: a value it returns is the value of a stored record whose key
\* is the queried key and whose entry, with the key's hash, sits in the key's
\* bucket; and an entry whose hash matches but whose key differs yields no value,
\* the probe going on to the next slot.
C18_GetSound ==
  Readable =>
    \A r \in FirstReaders : \A k \in Keys :
      /\ GetSound(readers[r], k, CDBHashSum32(k))
      /\ GetContinues(readers[r], k, CDBHashSum32(k))


\* the buckets of all Puts, in Put order
PutBuckets ==
  SubSeq([i \in 1..Len(puts) |-> TableOf(CDBHashSum32(puts[i].key))], 1, Len(puts))

\* the pending entries of bucket b are those of the Puts ps, in Put order, each
\* with the key's hash and the start of the Put's record
PendingOf(b, ps) ==
  /\ Len(entries[b]) = Len(ps)
  /\ \A j \in DOMAIN ps :
       entries[b][j] = [hash |-> CDBHashSum32(puts[ps[j]].key),
                        offset |-> RecordsEnd(puts, ps[j] - 1)]

PendingIn(bs) ==
  /\ \A b \in Buckets : PendingOf(b, BucketPuts(bs, b))
  /\ Cardinality({ bj \in Buckets \X (1..Len(puts)) : bj[2] <= Len(entries[bj[1]]) })
       = Len(puts)

\* C19: after NewWriter and any Puts that all returned nil, the tracked offset is
\* 2048 plus the sum of 8 + len(key) + len(value) over the Puts, which is the
\* number of bytes emitted (those in the sink and those still buffered); the
\* pending entry of each Put holds the start of its record; there are as many
\* pending entries as Puts; and the record starts increase strictly in Put order.
C19_OffsetBookkeeping ==
  (hist.finalizeRuns = 0 /\ \A i \in DOMAIN puts : puts[i].res = "nil") =>
    /\ bufferedOffset = RecordsEnd(puts, Len(puts))
    /\ bufferedOffset = WAdd(BLen(writer.file), BLen(bufferedWriter.buf))
    /\ PendingIn(PutBuckets)
    /\ \A i, j \in DOMAIN puts :
         i < j => WLess(RecordsEnd(puts, i - 1), RecordsEnd(puts, j - 1))

\* C19, its case: two Puts of one bucket, with 2-byte keys and 2-byte values, have
\* returned nil: the offset is 2048 + 12 + 12
C19_Witness ==
  /\ hist.finalizeRuns = 0
  /\ Len(puts) = 2
  /\ puts[1].key = KCol1 /\ puts[1].res = "nil"
  /\ puts[2].key = KCol2 /\ puts[2].res = "nil"
  /\ bufferedOffset = Wide(2072)
  /\ Len(entries[TableOf(CDBHashSum32(KCol1))]) = 2

\* the header entry of bucket 0 holds D, no non-empty bucket's table lies below D,
\* and, when there are records, the table of some non-empty bucket starts at D
DataEndIn(index, D) ==
  /\ index[0].offset = D
  /\ \A b \in Buckets : index[b].length # WZero => WLeq(D, index[b].offset)
  /\ Len(Stored) > 0 => \E b \in Buckets : index[b].length # WZero /\ index[b].offset = D

\* C20: in a store the Writer has finalized, the offset recorded for bucket 0 is
\* the end of the data region, 2048 plus the bytes of all records, and is the
\* least table offset among the non-empty buckets, whether bucket 0 has entries or
\* not; it is the endPos at which Each stops.
C20_DataEnd ==
  hist.headerWrites = 1 =>
    /\ DataEndIn(FileIndex, RecordsEnd(Stored, Len(Stored)))
    /\ NewCDB(Open(writer)).index[0].offset = RecordsEnd(Stored, Len(Stored))

\* C20, its case: a finalized store of two records, none of them in bucket 0
C20_Witness ==
  /\ hist.headerWrites = 1
  /\ Len(Stored) = 2
  /\ FileIndex[0].length = WZero
  /\ FileIndex[0].offset = Wide(2048 + 12 + 12)
  /\ FileIndex[TableOf(CDBHashSum32(KCol1))].length = Wide(2)

\* the pairs handed to the visitor so far are the first stored records, each once,
\* in Put order
VisitedInOrder(seen) ==
  /\ Len(seen) <= Len(Stored)
  /\ \A i \in DOMAIN seen : seen[i] = << BytesOf(Stored[i].key), Stored[i].value >>

\* what the Each of caller c returned fits what it was handed: the visitor's error
\* right after the visitor's failing call, the read's error where the read failed,
\* nil after the last record
EachStopped(e) ==
  /\ e.err \in {"nil", "visitor", "io"}
  /\ e.err = "visitor" <=> (e.failAt > 0 /\ Len(e.seen) = e.failAt)
  /\ e.err = "io" =>
       /\ writer.closed
       /\ Len(e.seen) < Len(Stored)
       /\ e.pos = RecordsEnd(Stored, Len(e.seen))
  /\ e.err = "nil" => Len(e.seen) = Len(Stored)

\* C21: Each stops at the first error. The visitor is handed the records in Put
\* order, each once; when the visitor fails on the i-th record or the i-th record
\* cannot be read, Each returns that error, having handed the visitor the records
\* before the i-th and none after it; and an Each that has returned calls the
\* visitor no more.
C21_EachStopsAtError ==
  /\ [](\A c \in DOMAIN callers :
          callers[c].kind = "Each" =>
            /\ VisitedInOrder(callers[c].seen)
            /\ callers[c].failAt > 0 => Len(callers[c].seen) <= callers[c].failAt
            /\ callers[c].pc = "done" => EachStopped(callers[c]))
  /\ [][\A c \in DOMAIN callers :
          callers[c].pc = "done" => callers'[c] = callers[c]]_vars

\* C21, its case: of two records the visitor failed on the first: Each returned the
\* visitor's error and the second record was not handed to the visitor
C21_Witness ==
  /\ Len(Stored) = 2
  /\ callers[1].kind = "Each"
  /\ callers[1].pc = "done"
  /\ callers[1].err = "visitor"
  /\ callers[1].failAt = 1
  /\ Len(callers[1].seen) = 1
====
